---- MODULE Spec2Model ----
(***************************************************************************)
(* Capital gain calculator (FIFO method), src/cap-gain-calculator.py.      *)
(*                                                                         *)
(* The script reads a transaction log, validates it row by row while       *)
(* filling one buy deque and one sell deque per asset, and then matches,   *)
(* asset by asset, the earliest sell against the earliest buy.             *)
(*                                                                         *)
(* Numbers.  Units are counted in multiples of .00000001 (the dust         *)
(* threshold of the script), so Dust is 1.  Amounts are counted in sixths  *)
(* of a currency unit: every pro-rata quotient of the runs below is then   *)
(* an integer and the arithmetic of the model is the exact arithmetic of   *)
(* the rationals.  The rounding of Python's binary floating point is not   *)
(* part of the model.  Timestamps are seconds since 1970-01-01T00:00:00.   *)
(***************************************************************************)
EXTENDS Integers, Sequences, FiniteSets, TLC

\* Number of rows of input.xlsx.
MaxRows == 3

BUY == 0
SELL == 1
\* .00000001 units
Dust == 1
\* pd.Timedelta(15, "seconds")
LeewaySeconds == 15
\* pd.Timedelta(365, "d")
LongTermDays == 365
\* pd.Timestamp.now() while the script runs: 2026-11-01T00:00:00
Now == 1793491200

SecondsPerDay == 24 * 60 * 60

\* The cells a row of input.xlsx may hold.
\* Assets are named in the order in which the log first mentions them.
AssetNames == <<"BTC", "ETH">>
TypeCells == {"Buy", "Sell", "Swap"}
UnitCells == {-3, -2, 0, 2, 3}
AmountCells == {0, 6}
\* 2023-01-01T00:00:00, 15 s later, 2024-01-01T00:00:00 (365 days later)
\* and 2030-03-17T17:46:40 (after Now)
TimestampCells == {1672531200, 1672531215, 1704067200, 1900000000}

VARIABLES
    pc,              \* position of the script
    transactions,    \* rows of the sorted dataframe that have passed validation
    asset_map,       \* asset -> (buy deque, sell deque)
    asset_keys,      \* keys of asset_map in insertion order
    asset_iter,      \* number of keys the loop over asset_map has taken
    asset,           \* loop variable of the loop over asset_map
    fifo,            \* asset -> rows of its fifo dataframe
    margin,          \* rows of the margin dataframe
    year_summary,    \* year label -> statistics
    volume_summary,  \* statistics of the current asset
    match,           \* the match dictionary
    sell_tx,         \* name sell_tx, <<>> while unbound
    buy_tx,          \* name buy_tx, <<>> while unbound
    summary          \* the summary dataframe, <<>> until it is built

vars == <<pc, transactions, asset_map, asset_keys, asset_iter, asset, fifo,
          margin, year_summary, volume_summary, match, sell_tx, buy_tx, summary>>

-----------------------------------------------------------------------------
(* Helpers *)

Abs(x) == IF x < 0 THEN -x ELSE x

\* An unbound name.
Unbound == <<>>

\* collections.deque, leftmost element first.
AppendLeft(q, x) == <<x>> \o q
AppendRight(q, x) == Append(q, x)
Rightmost(q) == q[Len(q)]
PopRight(q) == SubSeq(q, 1, Len(q) - 1)

\* pd.Timestamp.year: the year of the proleptic Gregorian calendar.
YearOf(ts) ==
    LET z == (ts \div SecondsPerDay) + 719468
        era == z \div 146097
        doe == z - era * 146097
        yoe == (doe - doe \div 1460 + doe \div 36524 - doe \div 146096) \div 365
        doy == doe - (365 * yoe + yoe \div 4 - yoe \div 100)
        mp == (5 * doy + 2) \div 153
    IN  yoe + era * 400 + (IF mp < 10 THEN 0 ELSE 1)

\* str(sell_tx['Timestamp'].year)
YearLabel(ts) == ToString(YearOf(ts))

-----------------------------------------------------------------------------
(* 1. and 2.  Read, sort, validate, fill the transaction queues *)

Row(ts, a, ty, u, amt, id) ==
    [Timestamp |-> ts, Asset |-> a, Type |-> ty, Units |-> u,
     TotalAmount |-> amt, IRSID |-> id]

\* sort_values(by=['Timestamp', 'IRS ID']): the row after prev in the sorted
\* dataframe.  The IRS ID of a row is its rank in the sorted dataframe.
SortedAfter(prev, row) == prev.Timestamp <= row.Timestamp

\* The message of validate_error for a row, "" for a row that passes.
ValidationMessage(row) ==
    IF row.TotalAmount <= 0 THEN "Total Amount is empty or negative"
    ELSE IF row.Timestamp > Now THEN "Timestamp is empty or invalid"
    ELSE IF row.Type = "Buy"
         THEN IF row.Units < 0 THEN "Units is negative on a Buy transaction" ELSE ""
    ELSE IF row.Type = "Sell"
         THEN IF row.Units > 0 THEN "Units is positive on a Sell transaction" ELSE ""
    ELSE "Type is empty or neither Buy nor Sell"

\* The deques of an asset are created before the Type of the row is looked at.
DequesCreated(row) ==
    row.TotalAmount > 0 /\ row.Timestamp <= Now

EmptyDeques == (BUY :> <<>>) @@ (SELL :> <<>>)

WithAsset(map, a) ==
    IF a \in DOMAIN map THEN map ELSE map @@ (a :> EmptyDeques)

Side(row) == IF row.Type = "Buy" THEN BUY ELSE SELL

Insert(map, row) ==
    LET m == WithAsset(map, row.Asset)
    IN  [m EXCEPT ![row.Asset][Side(row)] = AppendLeft(@, row)]

\* The assets the next row may be of.
AssetCells(keys) ==
    {AssetNames[i] : i \in {j \in 1..Len(AssetNames) : j <= Len(keys) + 1}}

Init ==
    /\ pc = "validate"
    /\ transactions = <<>>
    /\ asset_map = <<>>
    /\ asset_keys = <<>>
    /\ asset_iter = 0
    /\ asset = Unbound
    /\ fifo = <<>>
    /\ margin = <<>>
    /\ year_summary = <<>>
    /\ volume_summary = Unbound
    /\ match = Unbound
    /\ sell_tx = Unbound
    /\ buy_tx = Unbound
    /\ summary = Unbound

\* One iteration of the validation loop.
ValidateRow ==
    /\ pc = "validate"
    /\ Len(transactions) < MaxRows
    /\ \E ts \in TimestampCells, a \in AssetCells(asset_keys), ty \in TypeCells,
          u \in UnitCells, amt \in AmountCells :
         LET row == Row(ts, a, ty, u, amt, ToString(Len(transactions) + 1))
             msg == ValidationMessage(row)
         IN  /\ transactions # <<>> =>
                    SortedAfter(transactions[Len(transactions)], row)
             /\ transactions' = IF msg = "" THEN Append(transactions, row)
                                ELSE transactions
             /\ asset_map' = IF msg = "" THEN Insert(asset_map, row)
                             ELSE IF DequesCreated(row)
                                  THEN WithAsset(asset_map, row.Asset)
                                  ELSE asset_map
             /\ asset_keys' = IF DequesCreated(row) /\ row.Asset \notin DOMAIN asset_map
                              THEN Append(asset_keys, row.Asset)
                              ELSE asset_keys
             /\ pc' = IF msg = "" THEN "validate" ELSE "exit"
    /\ UNCHANGED <<asset_iter, asset, fifo, margin, year_summary, volume_summary,
                   match, sell_tx, buy_tx, summary>>

-----------------------------------------------------------------------------
(* 3. FIFO transaction matching *)

\* A cell no value was written to.
NaN == "NaN"

NewBucket(label) ==
    [Year |-> label, STCG |-> 0, STCL |-> 0, LTCG |-> 0, LTCL |-> 0, NetCG |-> 0]

\* A key the match dictionary does not have yet.
NoKey == ""

NewMatch(a) ==
    [Asset |-> a, DatePurchased |-> NoKey, DateSold |-> NoKey,
     Units |-> NoKey, SalePrice |-> NoKey, Basis |-> NoKey,
     GainLoss |-> NoKey, RemainderUnits |-> "-", RemainderBasis |-> "-",
     IRSIDBuy |-> NoKey, IRSIDSell |-> NoKey]

NewVolumeSummary ==
    [GainLoss |-> 0, SalePrice |-> 0, Basis |-> 0,
     RemainderUnits |-> 0, RemainderBasis |-> 0]

\* The row pd.DataFrame([volume_summary]) adds to a fifo dataframe.
VolumeRow(v) ==
    [Asset |-> NaN, DatePurchased |-> NaN, DateSold |-> NaN, Units |-> NaN,
     SalePrice |-> v.SalePrice, Basis |-> v.Basis, GainLoss |-> v.GainLoss,
     RemainderUnits |-> v.RemainderUnits, RemainderBasis |-> v.RemainderBasis,
     IRSIDBuy |-> NaN, IRSIDSell |-> NaN]

\* The validation loop is over: the dataframes and dictionaries of part 3.
StartMatching ==
    /\ pc = "validate"
    /\ pc' = "assets"
    /\ fifo' = <<>>
    /\ margin' = <<>>
    /\ year_summary' = ("totals" :> NewBucket("Totals"))
    /\ UNCHANGED <<transactions, asset_map, asset_keys, asset_iter, asset,
                   volume_summary, match, sell_tx, buy_tx, summary>>

\* for asset in asset_map: the head of the loop body.
BeginAsset ==
    /\ pc = "assets"
    /\ asset_iter < Len(asset_keys)
    /\ LET a == asset_keys[asset_iter + 1]
       IN  /\ asset' = a
           /\ match' = NewMatch(a)
           /\ fifo' = fifo @@ (a :> <<>>)
    /\ asset_iter' = asset_iter + 1
    /\ volume_summary' = NewVolumeSummary
    /\ pc' = "asset"
    /\ UNCHANGED <<transactions, asset_map, asset_keys, margin, year_summary,
                   sell_tx, buy_tx, summary>>

\* IsMargin without a look at the earliest buy.
IsMargin_NoBuyOnly(buys, s) == buys = <<>>

\* IsMargin without the strictness of the comparison.
IsMargin_AtLeeway(buys, s) ==
    \/ buys = <<>>
    \/ Rightmost(buys).Timestamp >= s.Timestamp + LeewaySeconds

\* The buy transaction has to be margin: no buy, or the earliest is after the sell.
IsMargin(buys, s) ==
    \/ buys = <<>>
    \/ Rightmost(buys).Timestamp > s.Timestamp + LeewaySeconds

MarginMatch(m, s) ==
    [m EXCEPT !.IRSIDBuy = "MARGIN", !.IRSIDSell = s.IRSID,
              !.DatePurchased = s.Timestamp, !.DateSold = s.Timestamp,
              !.Units = Abs(s.Units), !.SalePrice = s.TotalAmount,
              !.Basis = 0, !.GainLoss = s.TotalAmount]

\* ProRata without the proration.
ProRata_Unsplit(part, whole, amount) == amount

\* part / whole * amount
ProRata(part, whole, amount) == (part * amount) \div whole

\* The sell transaction put back into the deque.
PutBackSell(sells, s) == AppendRight(sells, s)

\* PutBackBuy at the other end of the deque.
PutBackBuy_Left(buys, b) == AppendLeft(buys, b)

\* The buy transaction put back into the deque.
PutBackBuy(buys, b) == AppendRight(buys, b)

\* The non-margin branch, after both transactions were popped: the match, the
\* two transactions and the two deques after the branch.
FifoMatch(m, buys, sells, b, s) ==
    LET ids == [m EXCEPT !.IRSIDBuy = b.IRSID, !.IRSIDSell = s.IRSID,
                         !.DatePurchased = b.Timestamp, !.DateSold = s.Timestamp]
    IN  IF Abs(s.Units) > b.Units
        THEN LET pro_rata_sale_price == ProRata(b.Units, Abs(s.Units), s.TotalAmount)
                 reduced == [s EXCEPT !.Units = s.Units + b.Units,
                                      !.TotalAmount = s.TotalAmount - pro_rata_sale_price]
             IN  [match |-> [ids EXCEPT !.Units = b.Units,
                                        !.SalePrice = pro_rata_sale_price,
                                        !.Basis = b.TotalAmount],
                  sell_tx |-> reduced,
                  buy_tx |-> b,
                  buys |-> buys,
                  sells |-> PutBackSell(sells, reduced)]
        ELSE IF Abs(s.Units) < b.Units
        THEN LET pro_rata_basis == ProRata(Abs(s.Units), b.Units, b.TotalAmount)
                 reduced == [b EXCEPT !.Units = b.Units + s.Units,
                                      !.TotalAmount = b.TotalAmount - pro_rata_basis]
             IN  [match |-> [ids EXCEPT !.Units = Abs(s.Units),
                                        !.SalePrice = s.TotalAmount,
                                        !.Basis = pro_rata_basis],
                  sell_tx |-> s,
                  buy_tx |-> reduced,
                  buys |-> PutBackBuy(buys, reduced),
                  sells |-> sells]
        ELSE [match |-> [ids EXCEPT !.Units = b.Units,
                                    !.SalePrice = s.TotalAmount,
                                    !.Basis = b.TotalAmount],
              sell_tx |-> s,
              buy_tx |-> b,
              buys |-> buys,
              sells |-> sells]

\* Match units are not dust.
NotDust(units) == Abs(units) > Dust

\* Bucket with 365 days still short term.
Bucket_LongAfter365(sold, purchased, gain_loss) ==
    IF sold - purchased <= LongTermDays * SecondsPerDay
    THEN IF gain_loss > 0 THEN "STCG" ELSE "STCL"
    ELSE IF gain_loss > 0 THEN "LTCG" ELSE "LTCL"

\* The column of year_summary a gain or loss is added to.
Bucket(sold, purchased, gain_loss) ==
    IF sold - purchased < LongTermDays * SecondsPerDay
    THEN IF gain_loss > 0 THEN "STCG" ELSE "STCL"
    ELSE IF gain_loss > 0 THEN "LTCG" ELSE "LTCL"

WithYear(ys, year) ==
    IF year \in DOMAIN ys THEN ys ELSE ys @@ (year :> NewBucket(year))

\* AddGainLoss without the net of the totals.
AddGainLoss_NoTotalsNet(ys, year, column, gain_loss) ==
    [ys EXCEPT ![year][column] = @ + gain_loss,
               !["totals"][column] = @ + gain_loss,
               ![year].NetCG = @ + gain_loss]

AddGainLoss(ys, year, column, gain_loss) ==
    [ys EXCEPT ![year][column] = @ + gain_loss,
               !["totals"][column] = @ + gain_loss,
               ![year].NetCG = @ + gain_loss,
               !["totals"].NetCG = @ + gain_loss]

\* AddVolume without the sale price.
AddVolume_NoSalePrice(v, m) ==
    [v EXCEPT !.GainLoss = @ + m.GainLoss,
              !.Basis = @ + m.Basis]

\* AddVolume without the basis.
AddVolume_NoBasis(v, m) ==
    [v EXCEPT !.GainLoss = @ + m.GainLoss,
              !.SalePrice = @ + m.SalePrice]

AddVolume(v, m) ==
    [v EXCEPT !.GainLoss = @ + m.GainLoss,
              !.SalePrice = @ + m.SalePrice,
              !.Basis = @ + m.Basis]

(* The names the loops of one asset read and write:                        *)
(*   buys, sells      the two deques of the asset                          *)
(*   table            the rows of fifo[asset]                              *)
(*   margin, year_summary, volume_summary, match, sell_tx, buy_tx          *)
(*   failed           an exception has ended the script                    *)
Names(buys, sells, table, mrg, ys, vs, m, stx, btx) ==
    [buys |-> buys, sells |-> sells, table |-> table, margin |-> mrg,
     year_summary |-> ys, volume_summary |-> vs, match |-> m,
     sell_tx |-> stx, buy_tx |-> btx, failed |-> FALSE]

\* One iteration of: while asset_map[asset][SELL].
SellIteration(n) ==
    LET s == Rightmost(n.sells)
        sells == PopRight(n.sells)
        is_margin == IsMargin(n.buys, s)
        fm == FifoMatch(n.match, PopRight(n.buys), sells, Rightmost(n.buys), s)
        branch == IF is_margin THEN MarginMatch(n.match, s) ELSE fm.match
        m == [branch EXCEPT !.GainLoss = branch.SalePrice - branch.Basis]
        stx == IF is_margin THEN s ELSE fm.sell_tx
        btx == IF is_margin THEN n.buy_tx ELSE fm.buy_tx
        year == YearLabel(stx.Timestamp)
        ys == WithYear(n.year_summary, year)
    IN  [buys |-> IF is_margin THEN n.buys ELSE fm.buys,
         sells |-> IF is_margin THEN sells ELSE fm.sells,
         table |-> IF NotDust(m.Units) THEN Append(n.table, m) ELSE n.table,
         margin |-> IF is_margin THEN Append(n.margin, branch) ELSE n.margin,
         match |-> m,
         sell_tx |-> stx,
         buy_tx |-> btx,
         \* NameError: name 'buy_tx' is not defined
         failed |-> btx = Unbound,
         year_summary |->
             IF btx = Unbound THEN ys
             ELSE AddGainLoss(ys, year,
                              Bucket(stx.Timestamp, btx.Timestamp, m.GainLoss),
                              m.GainLoss),
         volume_summary |->
             IF btx = Unbound THEN n.volume_summary
             ELSE AddVolume(n.volume_summary, m)]

CarryoverMatch(m, b) ==
    [m EXCEPT !.IRSIDBuy = b.IRSID, !.IRSIDSell = "-",
              !.DatePurchased = b.Timestamp, !.DateSold = "-",
              !.Units = "-", !.RemainderUnits = b.Units,
              !.SalePrice = "-", !.Basis = "-",
              !.RemainderBasis = b.TotalAmount, !.GainLoss = "-"]

\* CarryoverIteration with a volume summary that leaves out dust.
CarryoverIteration_DustLeftOut(n) ==
    LET b == Rightmost(n.buys)
        m == CarryoverMatch(n.match, b)
    IN  [n EXCEPT !.buys = PopRight(n.buys),
                  !.buy_tx = b,
                  !.match = m,
                  !.volume_summary =
                      IF b.Units > Dust
                      THEN [n.volume_summary EXCEPT !.RemainderUnits = @ + b.Units,
                                                    !.RemainderBasis = @ + b.TotalAmount]
                      ELSE n.volume_summary,
                  !.table = IF b.Units > Dust THEN Append(n.table, m) ELSE n.table]

\* One iteration of: while asset_map[asset][BUY].
CarryoverIteration(n) ==
    LET b == Rightmost(n.buys)
        m == CarryoverMatch(n.match, b)
    IN  [n EXCEPT !.buys = PopRight(n.buys),
                  !.buy_tx = b,
                  !.match = m,
                  !.volume_summary =
                      [n.volume_summary EXCEPT !.RemainderUnits = @ + b.Units,
                                               !.RemainderBasis = @ + b.TotalAmount],
                  !.table = IF b.Units > Dust THEN Append(n.table, m) ELSE n.table]

\* Add the volume summary to the fifo dataframe of the asset.
CloseTable(n) ==
    [n EXCEPT !.table = Append(n.table, VolumeRow(n.volume_summary))]

\* The names as the script holds them while it is in the loops of asset.
Current ==
    Names(asset_map[asset][BUY], asset_map[asset][SELL], fifo[asset], margin,
          year_summary, volume_summary, match, sell_tx, buy_tx)

\* The script goes on with the names n.
Continue(n) ==
    /\ asset_map' = [asset_map EXCEPT ![asset] = (BUY :> n.buys) @@ (SELL :> n.sells)]
    /\ fifo' = [fifo EXCEPT ![asset] = n.table]
    /\ margin' = n.margin
    /\ year_summary' = n.year_summary
    /\ volume_summary' = n.volume_summary
    /\ match' = n.match
    /\ sell_tx' = n.sell_tx
    /\ buy_tx' = n.buy_tx
    /\ UNCHANGED <<transactions, asset_keys, asset_iter, asset, summary>>

MatchStep ==
    /\ pc = "asset"
    /\ asset_map[asset][SELL] # <<>>
    /\ LET n == SellIteration(Current)
       IN  /\ Continue(n)
           /\ pc' = IF n.failed THEN "error" ELSE "asset"

CarryoverStep ==
    /\ pc = "asset"
    /\ asset_map[asset][SELL] = <<>>
    /\ asset_map[asset][BUY] # <<>>
    /\ Continue(CarryoverIteration(Current))
    /\ pc' = "asset"

\* Both loops of the asset are over.
FinishAsset ==
    /\ pc = "asset"
    /\ asset_map[asset][SELL] = <<>>
    /\ asset_map[asset][BUY] = <<>>
    /\ Continue(CloseTable(Current))
    /\ pc' = "assets"

\* The labels of ys that are years, ascending.
RECURSIVE YearsAscending(_, _)
YearsAscending(ys, from) ==
    LET later == {t \in TimestampCells : YearOf(t) >= from /\ YearLabel(t) \in DOMAIN ys}
    IN  IF later = {} THEN <<>>
        ELSE LET y == CHOOSE y \in {YearOf(t) : t \in later} :
                          \A t \in later : y <= YearOf(t)
             IN  <<ToString(y)>> \o YearsAscending(ys, y + 1)

\* summary.sort_values(by='Year'): a digit sorts before the 'T' of 'Totals'.
SortedByYear(ys) ==
    LET labels == YearsAscending(ys, 0) \o <<"totals">>
    IN  [i \in 1..Len(labels) |-> ys[labels[i]]]

Summarize ==
    /\ pc = "assets"
    /\ asset_iter = Len(asset_keys)
    /\ summary' = SortedByYear(year_summary)
    /\ pc' = "done"
    /\ UNCHANGED <<transactions, asset_map, asset_keys, asset_iter, asset, fifo,
                   margin, year_summary, volume_summary, match, sell_tx, buy_tx>>

Next ==
    \/ ValidateRow
    \/ StartMatching
    \/ BeginAsset
    \/ MatchStep
    \/ CarryoverStep
    \/ FinishAsset
    \/ Summarize

Spec == Init /\ [][Next]_vars

-----------------------------------------------------------------------------
(* Properties *)

RECURSIVE Sum(_)
Sum(numbers) ==
    IF numbers = <<>> THEN 0 ELSE Head(numbers) + Sum(Tail(numbers))

\* The kinds of row of a fifo dataframe.
IsVolumeRow(r) == r.Asset = NaN
IsCarryoverRow(r) == ~IsVolumeRow(r) /\ r.IRSIDSell = "-"
IsMatchRow(r) == ~IsVolumeRow(r) /\ r.IRSIDSell # "-"
IsMarginRow(r) == r.IRSIDBuy = "MARGIN"

\* The loops of asset a are over: its dataframe ends with the volume summary.
TableClosed(a) ==
    /\ a \in DOMAIN fifo
    /\ fifo[a] # <<>>
    /\ IsVolumeRow(fifo[a][Len(fifo[a])])

PurchasedUnits(a) ==
    Sum([i \in 1..Len(transactions) |->
            IF transactions[i].Asset = a /\ transactions[i].Type = "Buy"
            THEN transactions[i].Units ELSE 0])

MatchedUnits(a) ==
    Sum([i \in 1..Len(fifo[a]) |->
            IF IsMatchRow(fifo[a][i]) THEN fifo[a][i].Units ELSE 0])

CarryoverUnits(a) ==
    Sum([i \in 1..Len(fifo[a]) |->
            IF IsCarryoverRow(fifo[a][i]) THEN fifo[a][i].RemainderUnits ELSE 0])

\* The log is well formed: no transaction of zero units.
WellFormed == \A i \in 1..Len(transactions) : transactions[i].Units # 0

\* C1: for a well-formed log, once the loops of an asset are over, the units of its purchases are,
\* within the dust tolerance, the units of the match rows of its dataframe plus
\* the remainder units of its carryover rows.
C1_UnitConservation ==
    \A a \in DOMAIN fifo :
        (WellFormed /\ TableClosed(a)) =>
            Abs(PurchasedUnits(a) - (MatchedUnits(a) + CarryoverUnits(a))) <= Dust

\* C3: after a run on a well-formed log, no row of a fifo dataframe is a
\* margin record.
C3_MarginOnlyInMargin ==
    (WellFormed /\ pc = "done") =>
        \A a \in DOMAIN fifo : \A i \in 1..Len(fifo[a]) : ~IsMarginRow(fifo[a][i])

\* C4: on a well-formed log, a sale without a covering purchase never ends the
\* script with an error.
C4_MarginNeverAnError == WellFormed => pc # "error"

\* The rank of the row with IRS ID id in the sorted dataframe.
Rank(id) == CHOOSE i \in 1..Len(transactions) : transactions[i].IRSID = id

\* The script is about to run an iteration of the sell loop of asset.
AtSellIteration == pc = "asset" /\ asset_map[asset][SELL] # <<>>

\* match is the match of a sell with a buy.
IsFifoMatch(m) == m.IRSIDSell \notin {NoKey, "-"} /\ m.IRSIDBuy # "MARGIN"

\* C2: a non-margin iteration matches the oldest sell and the oldest buy that
\* are left in the deques of the asset, and a transaction that is put back is
\* the next its deque gives out.
C2_FifoOrder ==
    [][(AtSellIteration /\ match'.IRSIDBuy # "MARGIN") =>
          LET buys == asset_map[asset][BUY]
              sells == asset_map[asset][SELL]
              buys_after == asset_map'[asset][BUY]
              sells_after == asset_map'[asset][SELL]
          IN  /\ \E i \in 1..Len(sells) : sells[i].IRSID = match'.IRSIDSell
              /\ \E i \in 1..Len(buys) : buys[i].IRSID = match'.IRSIDBuy
              /\ \A i \in 1..Len(sells) :
                     Rank(match'.IRSIDSell) <= Rank(sells[i].IRSID)
              /\ \A i \in 1..Len(buys) :
                     Rank(match'.IRSIDBuy) <= Rank(buys[i].IRSID)
              /\ \A i \in 1..Len(sells_after) :
                     sells_after[i].IRSID = match'.IRSIDSell => i = Len(sells_after)
              /\ \A i \in 1..Len(buys_after) :
                     buys_after[i].IRSID = match'.IRSIDBuy => i = Len(buys_after)
      ]_vars

\* A buy that was put back is ahead of a later buy.
C2_Witness ==
    /\ pc = "asset"
    /\ IsFifoMatch(match)
    /\ Len(asset_map[asset][BUY]) = 2
    /\ Rightmost(asset_map[asset][BUY]).IRSID = match.IRSIDBuy

\* C5: the sell an iteration pops is margin if and only if there is no buy or
\* the earliest buy is more than 15 seconds after it; the margin record has the
\* units and the amount of the sell and no basis, the sell is not put back and
\* the buy deque is unchanged.
C5_MarginTest ==
    [][AtSellIteration =>
          LET buys == asset_map[asset][BUY]
              sells == asset_map[asset][SELL]
              s == Rightmost(sells)
              uncovered == \/ Len(buys) = 0
                           \/ Rightmost(buys).Timestamp - s.Timestamp > LeewaySeconds
          IN  IF uncovered
              THEN /\ Len(margin') = Len(margin) + 1
                   /\ SubSeq(margin', 1, Len(margin)) = margin
                   /\ LET r == margin'[Len(margin')]
                      IN  /\ r.IRSIDBuy = "MARGIN"
                          /\ r.IRSIDSell = s.IRSID
                          /\ r.Units = Abs(s.Units)
                          /\ r.SalePrice = s.TotalAmount
                          /\ r.Basis = 0
                          /\ r.GainLoss = r.SalePrice
                   /\ asset_map'[asset][SELL] = PopRight(sells)
                   /\ asset_map'[asset][BUY] = buys
              ELSE /\ margin' = margin
                   /\ match'.IRSIDBuy # "MARGIN"
      ]_vars

\* A sell was margin although a buy, a later one, is in the deque.
C5_Witness ==
    /\ pc = "asset"
    /\ match.IRSIDBuy = "MARGIN"
    /\ margin # <<>>
    /\ asset_map[asset][BUY] # <<>>
    /\ sell_tx.Units < 0

Columns == {"STCG", "STCL", "LTCG", "LTCL"}

\* C6: the gain or loss of a non-margin match is added to exactly one column
\* of the year of the sale and of the totals: a long-term column if and only
\* if the sale is 365 days or more after the purchase, a gain column if and
\* only if the gain or loss is above zero.
C6_BucketSelection ==
    [][(AtSellIteration /\ match'.IRSIDBuy # "MARGIN") =>
          LET m == match'
              year == ToString(YearOf(m.DateSold))
              long_term == m.DateSold - m.DatePurchased >= LongTermDays * SecondsPerDay
              column == IF long_term
                        THEN IF m.GainLoss > 0 THEN "LTCG" ELSE "LTCL"
                        ELSE IF m.GainLoss > 0 THEN "STCG" ELSE "STCL"
              before(label, c) == IF label \in DOMAIN year_summary
                                  THEN year_summary[label][c] ELSE 0
          IN  /\ DOMAIN year_summary' = DOMAIN year_summary \cup {year}
              /\ \A label \in DOMAIN year_summary', c \in Columns :
                     year_summary'[label][c] - before(label, c) =
                         IF label \in {year, "totals"} /\ c = column
                         THEN m.GainLoss ELSE 0
      ]_vars

\* A short-term gain, made after a long-term loss of the same year.
C6_Witness ==
    /\ pc = "asset"
    /\ IsFifoMatch(match)
    /\ match.DateSold - match.DatePurchased < LongTermDays * SecondsPerDay
    /\ match.GainLoss > 0
    /\ year_summary[YearLabel(match.DateSold)].STCG = match.GainLoss
    /\ year_summary[YearLabel(match.DateSold)].LTCL < 0

\* The labels of year_summary that are years.
YearLabels == DOMAIN year_summary \ {"totals"}

RECURSIVE SumOverYears(_, _)
SumOverYears(labels, c) ==
    IF labels = {} THEN 0
    ELSE LET label == CHOOSE label \in labels : TRUE
         IN  year_summary[label][c] + SumOverYears(labels \ {label}, c)

\* C7: in every state the net of every entry of year_summary is the sum of
\* its four columns, and every column of the totals is the sum of that column
\* over the years.
C7_AggregateConsistency ==
    year_summary # <<>> =>
        /\ \A label \in DOMAIN year_summary :
               LET e == year_summary[label]
               IN  e.NetCG = e.STCG + e.STCL + e.LTCG + e.LTCL
        /\ \A c \in Columns \cup {"NetCG"} :
               year_summary["totals"][c] = SumOverYears(YearLabels, c)

\* Two years with a net that is not zero.
C7_Witness ==
    /\ year_summary # <<>>
    /\ Cardinality(YearLabels) = 2
    /\ \A label \in YearLabels : year_summary[label].NetCG # 0
    /\ year_summary["totals"].STCG > 0
    /\ year_summary["totals"].LTCL < 0

\* C8: on a well-formed log, an iteration whose match units are dust and that
\* ends without an error adds no row to a dataframe, and adds its gain or loss,
\* sale price and basis to the volume summary and its gain or loss to the year
\* and to the totals.
C8_DustFloor ==
    [][(AtSellIteration /\ WellFormed /\ pc' # "error" /\ Abs(match'.Units) <= Dust) =>
          LET m == match'
              year == YearLabel(m.DateSold)
              net_before == IF year \in DOMAIN year_summary
                            THEN year_summary[year].NetCG ELSE 0
          IN  /\ fifo' = fifo
              /\ margin' = margin
              /\ volume_summary'.GainLoss = volume_summary.GainLoss + m.GainLoss
              /\ volume_summary'.SalePrice = volume_summary.SalePrice + m.SalePrice
              /\ volume_summary'.Basis = volume_summary.Basis + m.Basis
              /\ year_summary'[year].NetCG = net_before + m.GainLoss
              /\ year_summary'["totals"].NetCG =
                     year_summary["totals"].NetCG + m.GainLoss
      ]_vars

AllTables == {margin} \cup {fifo[a] : a \in DOMAIN fifo}

\* C9: the gain or loss of every row of the fifo dataframes and of the margin
\* dataframe is its sale price less its basis, and so is the gain or loss of
\* the volume summary.
C9_Exactness ==
    /\ \A a \in DOMAIN fifo : \A i \in 1..Len(fifo[a]) :
           LET r == fifo[a][i]
           IN  IsCarryoverRow(r) \/ r.GainLoss = r.SalePrice - r.Basis
    /\ \A i \in 1..Len(margin) :
           margin[i].GainLoss = margin[i].SalePrice - margin[i].Basis
    /\ volume_summary # Unbound =>
           volume_summary.GainLoss = volume_summary.SalePrice - volume_summary.Basis

\* A closed dataframe with the row of a pro-rata match, and a margin row.
C9_Witness ==
    /\ margin # <<>>
    /\ \E a \in DOMAIN fifo :
           /\ TableClosed(a)
           /\ \E i \in 1..Len(fifo[a]) :
                  LET r == fifo[a][i]
                  IN  /\ IsMatchRow(r)
                      /\ ~IsMarginRow(r)
                      /\ r.Basis > 0
                      /\ r.GainLoss < 0
                      /\ r.Units = 2
                      /\ \E j \in 1..Len(transactions) :
                             /\ transactions[j].IRSID = r.IRSIDSell
                             /\ transactions[j].Units = -3

\* The deques after the validation of rows.
RECURSIVE QueuesAfter(_, _)
QueuesAfter(map, rows) ==
    IF rows = <<>> THEN map ELSE QueuesAfter(Insert(map, Head(rows)), Tail(rows))

\* The loops of one asset, run to their end or to an exception.
RECURSIVE RunLoops(_)
RunLoops(n) ==
    IF n.failed THEN n
    ELSE IF n.sells # <<>> THEN RunLoops(SellIteration(n))
    ELSE IF n.buys # <<>> THEN RunLoops(CarryoverIteration(n))
    ELSE CloseTable(n)

\* Part 3 of the script, run on the transactions of asset a alone.
Alone(a) ==
    LET queues == QueuesAfter(<<>>, transactions)[a]
    IN  RunLoops(Names(queues[BUY], queues[SELL], <<>>, <<>>,
                       "totals" :> NewBucket("Totals"), NewVolumeSummary,
                       NewMatch(a), Unbound, Unbound))

RECURSIVE MarginsAlone(_)
MarginsAlone(keys) ==
    IF keys = <<>> THEN <<>> ELSE Alone(Head(keys)).margin \o MarginsAlone(Tail(keys))

RECURSIVE SumAlone(_, _, _)
SumAlone(keys, label, c) ==
    IF keys = <<>> THEN 0
    ELSE LET ys == Alone(Head(keys)).year_summary
         IN  (IF label \in DOMAIN ys THEN ys[label][c] ELSE 0)
                 + SumAlone(Tail(keys), label, c)

\* C10: after a run on a well-formed log, the dataframe of every asset, the
\* margin rows and year_summary are what the assets, each processed alone,
\* give, the margin rows put together and the statistics added up.
C10_AssetIndependence ==
    (WellFormed /\ pc = "done") =>
        /\ \A a \in DOMAIN fifo : ~Alone(a).failed /\ fifo[a] = Alone(a).table
        /\ margin = MarginsAlone(asset_keys)
        /\ \A label \in DOMAIN year_summary, c \in Columns \cup {"NetCG"} :
               year_summary[label][c] = SumAlone(asset_keys, label, c)

-----------------------------------------------------------------------------
(* Termination and the transaction queues *)

\* The total magnitude of the units of the transactions of a deque.
QueuedUnits(q) == Sum([i \in 1..Len(q) |-> Abs(q[i].Units)])

\* C11: on a well-formed log the loops of an asset end with no sell and no buy
\* left in its deques: once the script has begun an asset and is not in its
\* loops, both deques of the asset are empty.
C11_Termination ==
    (WellFormed /\ asset_iter > 0 /\ pc # "asset") =>
        /\ asset_map[asset][SELL] = <<>>
        /\ asset_map[asset][BUY] = <<>>

\* On a well-formed log every iteration of the sell loop lowers the units the
\* sell deque holds, and an iteration that is margin takes its sell for good.
SellLoopVariant ==
    [][(AtSellIteration /\ WellFormed) =>
          /\ QueuedUnits(asset_map'[asset][SELL]) < QueuedUnits(asset_map[asset][SELL])
          /\ match'.IRSIDBuy = "MARGIN" =>
                 asset_map'[asset][SELL] = PopRight(asset_map[asset][SELL])
      ]_vars

\* C12: a non-margin iteration splits the larger of its two transactions.  A
\* sell of more units than the buy gives a match of the units and the amount
\* of the buy, with the share buy units / sell units of the amount of the
\* sell as its sale price, and the sell, less these units and this share, is
\* the next its deque gives out.  A sell of fewer units gives the same with
\* the two transactions exchanged.  With equal units the match has the two
\* amounts and neither transaction is put back.
C12_PartialFill ==
    [][(AtSellIteration /\ match'.IRSIDBuy # "MARGIN") =>
          LET b == Rightmost(asset_map[asset][BUY])
              s == Rightmost(asset_map[asset][SELL])
              other_buys == PopRight(asset_map[asset][BUY])
              other_sells == PopRight(asset_map[asset][SELL])
              m == match'
          IN  IF Abs(s.Units) > b.Units
              THEN /\ m.Units = b.Units
                   /\ m.SalePrice * Abs(s.Units) = b.Units * s.TotalAmount
                   /\ m.Basis = b.TotalAmount
                   /\ asset_map'[asset][BUY] = other_buys
                   /\ PopRight(asset_map'[asset][SELL]) = other_sells
                   /\ Rightmost(asset_map'[asset][SELL]) =
                          [s EXCEPT !.Units = s.Units + b.Units,
                                    !.TotalAmount = s.TotalAmount - m.SalePrice]
                   /\ Abs(s.Units + b.Units) = Abs(s.Units) - b.Units
              ELSE IF Abs(s.Units) < b.Units
              THEN /\ m.Units = Abs(s.Units)
                   /\ m.SalePrice = s.TotalAmount
                   /\ m.Basis * b.Units = Abs(s.Units) * b.TotalAmount
                   /\ asset_map'[asset][SELL] = other_sells
                   /\ PopRight(asset_map'[asset][BUY]) = other_buys
                   /\ Rightmost(asset_map'[asset][BUY]) =
                          [b EXCEPT !.Units = b.Units - Abs(s.Units),
                                    !.TotalAmount = b.TotalAmount - m.Basis]
              ELSE /\ m.Units = b.Units
                   /\ m.SalePrice = s.TotalAmount
                   /\ m.Basis = b.TotalAmount
                   /\ asset_map'[asset][SELL] = other_sells
                   /\ asset_map'[asset][BUY] = other_buys
      ]_vars

\* The rest of a sell was matched with a buy of more units: the rest of that
\* buy is back in its deque.
C12_Witness ==
    /\ pc = "asset"
    /\ IsFifoMatch(match)
    /\ match.Units = 1
    /\ match.SalePrice = 2
    /\ match.Basis = 2
    /\ asset_map[asset][BUY] # <<>>
    /\ Rightmost(asset_map[asset][BUY]).IRSID = match.IRSIDBuy
    /\ Rightmost(asset_map[asset][BUY]).Units = 2
    /\ Rightmost(asset_map[asset][BUY]).TotalAmount = 4

\* C13: on a well-formed log, a margin iteration that ends without an error
\* adds its gain or loss to a short-term column of the year of the sale and
\* of the totals, and leaves every long-term column as it was.
C13_MarginShortTerm ==
    [][(AtSellIteration /\ WellFormed /\ pc' # "error"
            /\ match'.IRSIDBuy = "MARGIN") =>
          LET m == match'
              year == YearLabel(m.DateSold)
              column == IF m.GainLoss > 0 THEN "STCG" ELSE "STCL"
              before(label, c) == IF label \in DOMAIN year_summary
                                  THEN year_summary[label][c] ELSE 0
          IN  /\ m.DatePurchased = m.DateSold
              /\ \A label \in DOMAIN year_summary' :
                     /\ year_summary'[label].LTCG = before(label, "LTCG")
                     /\ year_summary'[label].LTCL = before(label, "LTCL")
              /\ year_summary'[year][column] = before(year, column) + m.GainLoss
              /\ year_summary'["totals"][column] =
                     before("totals", column) + m.GainLoss
      ]_vars

\* The script is about to run an iteration of the carryover loop of asset.
AtCarryoverIteration ==
    /\ pc = "asset"
    /\ asset_map[asset][SELL] = <<>>
    /\ asset_map[asset][BUY] # <<>>

\* The script is about to add the volume summary to the dataframe of asset.
AtVolumeSummary ==
    /\ pc = "asset"
    /\ asset_map[asset][SELL] = <<>>
    /\ asset_map[asset][BUY] = <<>>

\* C14: once the sell deque of an asset is empty, every step takes the buy the
\* deque gives out next, adds its units and its amount to the remainders of
\* the volume summary, adds a carryover row with these units and this amount
\* to the dataframe of the asset if and only if the units are above dust, and
\* changes neither year_summary nor the margin dataframe; when the buy deque
\* is empty too, the volume summary becomes the last row of the dataframe.
C14_Carryover ==
    [][/\ AtCarryoverIteration =>
              LET buys == asset_map[asset][BUY]
                  b == Rightmost(buys)
                  table == fifo[asset]
                  table_after == fifo'[asset]
              IN  /\ asset_map'[asset][BUY] = PopRight(buys)
                  /\ asset_map'[asset][SELL] = <<>>
                  /\ volume_summary' =
                         [volume_summary EXCEPT
                             !.RemainderUnits = @ + b.Units,
                             !.RemainderBasis = @ + b.TotalAmount]
                  /\ IF b.Units > Dust
                     THEN /\ Len(table_after) = Len(table) + 1
                          /\ SubSeq(table_after, 1, Len(table)) = table
                          /\ LET r == table_after[Len(table_after)]
                             IN  /\ IsCarryoverRow(r)
                                 /\ r.Asset = asset
                                 /\ r.IRSIDBuy = b.IRSID
                                 /\ r.DatePurchased = b.Timestamp
                                 /\ r.RemainderUnits = b.Units
                                 /\ r.RemainderBasis = b.TotalAmount
                     ELSE table_after = table
                  /\ year_summary' = year_summary
                  /\ margin' = margin
                  /\ pc' = "asset"
       /\ AtVolumeSummary =>
              /\ fifo'[asset] = Append(fifo[asset], VolumeRow(volume_summary))
              /\ year_summary' = year_summary
              /\ pc' = "assets"
      ]_vars

\* A dataframe that ends with the volume summary, after a carryover of dust,
\* which has no row, and a carryover of 2 units, which has one.
C14_Witness ==
    \E a \in DOMAIN fifo :
        /\ TableClosed(a)
        /\ fifo[a][Len(fifo[a])].RemainderUnits = 3
        /\ fifo[a][Len(fifo[a])].RemainderBasis = 8
        /\ Len(fifo[a]) >= 2
        /\ IsCarryoverRow(fifo[a][Len(fifo[a]) - 1])
        /\ fifo[a][Len(fifo[a]) - 1].RemainderUnits = 2
        /\ \A i \in 1..Len(fifo[a]) - 2 : ~IsCarryoverRow(fifo[a][i])

\* C15: in every state every buy in a deque has units above zero and every
\* sell in a deque has units below zero.
C15_QueueInvariant ==
    \A a \in DOMAIN asset_map :
        /\ \A i \in 1..Len(asset_map[a][BUY]) : asset_map[a][BUY][i].Units > 0
        /\ \A i \in 1..Len(asset_map[a][SELL]) : asset_map[a][SELL][i].Units < 0

\* On a well-formed log the deques hold no transaction of zero units, also
\* after a transaction was put back.
QueueInvariantWellFormed == WellFormed => C15_QueueInvariant

\* The transaction e of a deque was reduced by a match and put back.
PutBack(e) == e.Units # transactions[Rank(e.IRSID)].Units

\* C16: no deque ever holds a transaction that was put back with units of a
\* magnitude at or below the dust threshold.
C16_NoDustPutBack ==
    \A a \in DOMAIN asset_map : \A side \in {BUY, SELL} :
        \A i \in 1..Len(asset_map[a][side]) :
            LET e == asset_map[a][side][i]
            IN  PutBack(e) => Abs(e.Units) > Dust

\* The next iteration of a loop of asset takes a transaction of zero units.
TakesZeroUnits ==
    \/ /\ AtSellIteration
       /\ \/ Rightmost(asset_map[asset][SELL]).Units = 0
          \/ /\ ~IsMargin(asset_map[asset][BUY], Rightmost(asset_map[asset][SELL]))
             /\ Rightmost(asset_map[asset][BUY]).Units = 0
    \/ /\ AtCarryoverIteration
       /\ Rightmost(asset_map[asset][BUY]).Units = 0

\* C17: an iteration that takes a transaction of zero units off a deque ends
\* the script with an error.
C17_FailFast == [][TakesZeroUnits => pc' = "error"]_vars

\* The amounts of the rows of asset a of the log, by type.
LedgerAmount(a, type) ==
    Sum([i \in 1..Len(transactions) |->
            IF transactions[i].Asset = a /\ transactions[i].Type = type
            THEN transactions[i].TotalAmount ELSE 0])

\* The amounts of the transactions of a deque.
QueuedAmount(q) == Sum([i \in 1..Len(q) |-> q[i].TotalAmount])

\* C18: the volume summary of a finished asset has the amounts of the sells
\* of the asset as its sale price and the amounts of its buys as its basis
\* plus its remainder basis; between two iterations of the loops of an asset
\* the amounts the volume summary has taken up and the amounts still in the
\* deques add up to the amounts of the log; no transaction in a deque has an
\* amount below zero.
C18_MoneyConservation ==
    /\ \A a \in DOMAIN fifo :
           TableClosed(a) =>
               LET v == fifo[a][Len(fifo[a])]
               IN  /\ v.SalePrice = LedgerAmount(a, "Sell")
                   /\ v.Basis + v.RemainderBasis = LedgerAmount(a, "Buy")
    /\ pc = "asset" =>
           /\ volume_summary.SalePrice + QueuedAmount(asset_map[asset][SELL])
                  = LedgerAmount(asset, "Sell")
           /\ volume_summary.Basis + volume_summary.RemainderBasis
                  + QueuedAmount(asset_map[asset][BUY])
                  = LedgerAmount(asset, "Buy")
    /\ \A a \in DOMAIN asset_map : \A side \in {BUY, SELL} :
           \A i \in 1..Len(asset_map[a][side]) :
               asset_map[a][side][i].TotalAmount >= 0

\* A finished asset after one sell was split over two buys, the second of
\* which was split too (a match of dust, without a row) and has left a
\* carryover.
C18_Witness ==
    \E a \in DOMAIN fifo :
        /\ TableClosed(a)
        /\ Len(fifo[a]) = 3
        /\ IsMatchRow(fifo[a][1])
        /\ fifo[a][1].SalePrice = 4
        /\ fifo[a][1].Basis = 6
        /\ IsCarryoverRow(fifo[a][2])
        /\ fifo[a][2].IRSIDBuy # fifo[a][1].IRSIDBuy
        /\ fifo[a][2].RemainderUnits = 2
        /\ fifo[a][2].RemainderBasis = 4
        /\ fifo[a][3].SalePrice = 6
        /\ fifo[a][3].Basis = 8
        /\ fifo[a][3].RemainderBasis = 4

\* C19: an iteration of the sell loop that is not margin matches the sell with
\* a buy made no later than 15 seconds after it, and no row of the dataframe
\* of the asset pairs a sell with a later buy; an iteration that is margin
\* leaves the buy deque as it was.
C19_NoLatePurchase ==
    [][AtSellIteration =>
          LET buys == asset_map[asset][BUY]
              m == match'
              table_after == fifo'[asset]
          IN  /\ IF m.IRSIDBuy = "MARGIN"
                 THEN asset_map'[asset][BUY] = buys
                 ELSE /\ m.IRSIDBuy = Rightmost(buys).IRSID
                      /\ m.DatePurchased = Rightmost(buys).Timestamp
                      /\ m.DatePurchased <= m.DateSold + LeewaySeconds
              /\ \A i \in 1..Len(table_after) :
                     (IsMatchRow(table_after[i]) /\ ~IsMarginRow(table_after[i])) =>
                         table_after[i].DatePurchased
                             <= table_after[i].DateSold + LeewaySeconds
      ]_vars

\* A sell was matched with a buy made 15 seconds after it, and its rest was
\* margin: the buy of a later day is still in the deque.
C19_Witness ==
    /\ pc = "asset"
    /\ match.IRSIDBuy = "MARGIN"
    /\ fifo[asset] # <<>>
    /\ ~IsMarginRow(fifo[asset][1])
    /\ fifo[asset][1].DatePurchased = fifo[asset][1].DateSold + LeewaySeconds
    /\ fifo[asset][1].IRSIDSell = match.IRSIDSell
    /\ asset_map[asset][BUY] # <<>>
    /\ Rightmost(asset_map[asset][BUY]).Timestamp > match.DateSold + LeewaySeconds

====
